---- MODULE Spec2Model ----
(***************************************************************************)
(* A model of eca.py: the global rules registry and its decorators, the    *)
(* Context event queue and run loop, the thread-local current context      *)
(* (context_switch) and new_event.                                         *)
(***************************************************************************)
EXTENDS Integers, Sequences, FiniteSets, TLC

\* ---------------------------------------------------------------- universe
Contexts == {"A", "B"}            \* Context objects
WorkerOrder == <<"w1", "w2">>     \* threads created by Context.start, in order
Workers == {WorkerOrder[i] : i \in 1..Len(WorkerOrder)}
Users == {"u"}                    \* a thread that calls the API itself
Threads == Workers \cup Users
Names == {"x", "y"}               \* event names
Actions == {"f", "g"}             \* action bodies (functions)
Conds == {"p", "q"}               \* condition callables
\* what a condition callable may return: True, False, or a falsy value
\* that is not equal to False (None)
CondVals == {"True", "False", "None"}
NoContext == "NoContext"          \* Python's None as a context
NoEvent == [id |-> 0, name |-> "none", by |-> "none", src |-> 0, n |-> 0]

MaxEvents == 3                    \* events ever created
MaxRegs == 3                      \* registration calls ever made
MaxDepth == 2                     \* nesting of context_switch scopes
MaxCount == 1                     \* largest value of scope.count

VARIABLES
    rules,          \* the global rules set, in its iteration order
    events,         \* fn.events of every action body
    conditions,     \* fn.conditions of every action body
    regs,           \* registration calls made so far
    registered,     \* the action bodies in the order of their first registration
    call,           \* the decorator call that is past prepare_action, if any
    event_queue,    \* Context.event_queue
    done,           \* Context.done
    scope,          \* Context.scope (the count it holds)
    context,        \* thread_local.context of every thread
    old_context,    \* the old_context of every open context_switch of a thread
    pc,             \* where every thread is
    self,           \* the Context whose run() the thread executes
    event,          \* the event the thread's _handle_one works on
    iter,           \* the iterator over rules of that _handle_one
    candidates,     \* the candidates list of that _handle_one
    idx,            \* the next candidate of the for loop
    nextId,         \* the next Event to be constructed
    evaluated,      \* rules whose conditions ran for the thread's event
    executed,       \* rules whose action ran for the thread's event
    results,        \* what the last loop body evaluated and did
    error,          \* how the thread's last call ended, if it failed
    heard,          \* the rules that listened to the event when it was taken
    waits,          \* timed-out waits of a loop since done was set
    observed        \* the action runs on events that carry data, in time

regvars == <<rules, events, conditions, regs, registered, call>>
ctxvars == <<event_queue, done, scope>>
tlsvars == <<context, old_context>>
loopvars == <<pc, self, event, iter, candidates, idx>>
histvars == <<evaluated, executed, results, heard, waits, observed>>
vars == <<rules, events, conditions, regs, registered, call, event_queue, done,
          scope, context, old_context, pc, self, event, iter, candidates, idx,
          nextId, evaluated, executed, results, error, heard, waits, observed>>

\* a loop body: the rule, what its conditions returned so far, whether its
\* action was called, whether an exception left it, the scope.count its
\* conditions and action were handed (saw) and the one they left behind (left)
NoResult ==
    [rule |-> "none", res |-> <<>>, ran |-> FALSE, raised |-> FALSE,
     saw |-> 0, left |-> 0]

\* no decorator call is between its prepare_action and its own write
NoCall == [fn |-> "none", kind |-> "none", arg |-> "none"]

\* no iteration over rules is open; an open one has the position of its next
\* member and the size the set had when the iteration began
NoIter == [pos |-> 0, used |-> 0]

Init ==
    /\ rules = <<>>
    /\ events = [f \in Actions |-> {}]
    /\ conditions = [f \in Actions |-> <<>>]
    /\ regs = 0
    /\ registered = <<>>
    /\ call = NoCall
    /\ event_queue = [c \in Contexts |-> <<>>]
    /\ done = [c \in Contexts |-> FALSE]
    /\ scope = [c \in Contexts |-> 0]
    /\ context = [t \in Threads |-> NoContext]
    /\ old_context = [t \in Threads |-> <<>>]
    /\ pc = [t \in Threads |-> IF t \in Users THEN "user" ELSE "unstarted"]
    /\ self = [t \in Threads |-> NoContext]
    /\ event = [t \in Threads |-> NoEvent]
    /\ iter = [t \in Threads |-> NoIter]
    /\ candidates = [t \in Threads |-> <<>>]
    /\ idx = [t \in Threads |-> 1]
    /\ nextId = 1
    /\ evaluated = [t \in Threads |-> {}]
    /\ executed = [t \in Threads |-> {}]
    /\ results = [t \in Threads |-> NoResult]
    /\ error = [t \in Threads |-> "none"]
    /\ heard = [t \in Threads |-> {}]
    /\ waits = [t \in Threads |-> 0]
    /\ observed = <<>>

\* ------------------------------------------------------------- registration
Range(s) == {s[i] : i \in DOMAIN s}

\* the orders in which the members of S can be iterated
Perms(S) == {s \in [1..Cardinality(S) -> S] : Range(s) = S}

\* a registry kept as a list: every registration call appends
ListAppend(s, x) == {Append(s, x)}

\* rules.add(fn): a set holds fn once; the iteration order after a new
\* member was added is decided by the hashes and the table size, and a
\* resize of the table reorders the members it already had
SetAdd(s, x) ==
    IF x \in Range(s) THEN {s} ELSE Perms(Range(s) \cup {x})

\* the calls of prepare_action in time: fn joins at its first call
FirstCalls(s, fn) == IF fn \in Range(s) THEN s ELSE Append(s, fn)

\* prepare_action(fn): keeps the attributes fn already has
PreparedConditions(fn) == conditions[fn]
PreparedEvents(fn) == events[fn]

\* prepare_action(fn), the first statement of both decorators: kind and arg
\* are the decorator that calls it and its argument
PrepareAction(kind, arg, fn) ==
    /\ call = NoCall
    /\ regs < MaxRegs
    /\ rules' \in SetAdd(rules, fn)
    /\ conditions' = [conditions EXCEPT ![fn] = PreparedConditions(fn)]
    /\ events' = [events EXCEPT ![fn] = PreparedEvents(fn)]
    /\ regs' = regs + 1
    /\ registered' = FirstCalls(registered, fn)
    /\ call' = [fn |-> fn, kind |-> kind, arg |-> arg]
    /\ UNCHANGED <<ctxvars, tlsvars, loopvars, histvars, nextId, error>>

\* condition(c)(fn), after its prepare_action: fn.conditions.append(c)
ConditionDecorator(c, fn) ==
    /\ call = [fn |-> fn, kind |-> "condition", arg |-> c]
    /\ conditions' = [conditions EXCEPT ![fn] = Append(@, c)]
    /\ call' = NoCall
    /\ UNCHANGED <<rules, events, regs, registered, ctxvars, tlsvars, loopvars,
                   histvars, nextId, error>>

\* event(eventname)(fn), after its prepare_action: fn.events.add(eventname)
EventDecorator(eventname, fn) ==
    /\ call = [fn |-> fn, kind |-> "event", arg |-> eventname]
    /\ events' = [events EXCEPT ![fn] = @ \cup {eventname}]
    /\ call' = NoCall
    /\ UNCHANGED <<rules, conditions, regs, registered, ctxvars, tlsvars,
                   loopvars, histvars, nextId, error>>


\* ------------------------------------------------------------------ events
\* Event(name, data): a fresh instance; by is the thread whose new_event
\* made it ("env" for a caller of receive_event), src the event whose
\* action emitted it, n the attribute n of its data (0: no data)
NewEventObject(name, by, src) ==
    [id |-> nextId, name |-> name, by |-> by, src |-> src, n |-> 0]

\* an event whose data is dropped
WithoutData(e, n) == e

\* Event(name, {'n': n}): the event with the attribute n in its data
WithData(e, n) == [e EXCEPT !.n = n]

\* a put at the head of the queue
PutFront(q, e) == <<e>> \o q

\* queue.Queue.put
Put(q, e) == Append(q, e)

\* Context.receive_event, called by any thread that holds the Context
ReceiveEvent(c, name) ==
    /\ nextId <= MaxEvents
    /\ event_queue' = [event_queue EXCEPT ![c] = Put(@, NewEventObject(name, "env", 0))]
    /\ nextId' = nextId + 1
    /\ UNCHANGED <<regvars, done, scope, tlsvars, loopvars, histvars, error>>

\* setting Context.done
SetDone(c) ==
    /\ ~done[c]
    /\ done' = [done EXCEPT ![c] = TRUE]
    /\ UNCHANGED <<regvars, event_queue, scope, tlsvars, loopvars, histvars, nextId, error>>

\* ---------------------------------------------------------- context_switch
\* new_event: the queues after the call made with thread_local.context = ctx
NewEventQueues(ctx, q, e) ==
    IF ctx = NoContext THEN q ELSE [q EXCEPT ![ctx] = Put(@, e)]

\* with context_switch(c): entered by a user thread
EnterScope(t, c) ==
    /\ pc[t] = "user"
    /\ Len(old_context[t]) < MaxDepth
    /\ old_context' = [old_context EXCEPT ![t] = <<context[t]>> \o @]
    /\ context' = [context EXCEPT ![t] = c]
    /\ error' = [error EXCEPT ![t] = "none"]
    /\ UNCHANGED <<regvars, ctxvars, loopvars, histvars, nextId>>

\* the value thread_local.context has after the with block is left
\* normally: the code after the yield runs
RestoredContext(cur, stashed) == stashed

\* the value it has after the block is left by an exception: the exception
\* is thrown into the generator at the yield, nothing after it runs
UnwoundContext(cur, stashed) == cur

\* the body of the with block ends
ExitScope(t) ==
    /\ pc[t] = "user"
    /\ old_context[t] # <<>>
    /\ context' = [context EXCEPT ![t] = RestoredContext(@, Head(old_context[t]))]
    /\ old_context' = [old_context EXCEPT ![t] = Tail(@)]
    /\ error' = [error EXCEPT ![t] = "none"]
    /\ UNCHANGED <<regvars, ctxvars, loopvars, histvars, nextId>>

\* the body of the with block raises; the caller catches it outside
ExitScopeRaise(t) ==
    /\ pc[t] = "user"
    /\ old_context[t] # <<>>
    /\ context' = [context EXCEPT ![t] = UnwoundContext(@, Head(old_context[t]))]
    /\ old_context' = [old_context EXCEPT ![t] = Tail(@)]
    /\ error' = [error EXCEPT ![t] = "none"]
    /\ UNCHANGED <<regvars, ctxvars, loopvars, histvars, nextId>>

\* a current context kept in one place for all threads (here: what the
\* API-calling thread last bound)
SharedContext(t) == context["u"]

\* getattr(thread_local, 'context', None), read by thread t
CurrentContext(t) == context[t]

\* new_event: how the call made with thread_local.context = ctx ends
NewEventError(ctx) == IF ctx = NoContext THEN "NoCurrentContext" ELSE "ok"

\* new_event(name) called by a user thread
NewEvent(t, name) ==
    /\ pc[t] = "user"
    /\ nextId <= MaxEvents
    /\ event_queue' = NewEventQueues(CurrentContext(t), event_queue, NewEventObject(name, t, 0))
    /\ error' = [error EXCEPT ![t] = NewEventError(CurrentContext(t))]
    /\ nextId' = IF CurrentContext(t) = NoContext THEN nextId ELSE nextId + 1
    /\ UNCHANGED <<regvars, done, scope, tlsvars, loopvars, histvars>>

\* ---------------------------------------------------------------- run loop
\* threading.Thread(target=self.run).start(): the new thread enters run(),
\* whose context_switch(self) stashes the thread's (absent) context
Start(c) ==
    /\ \E w \in Workers :
        /\ pc[w] = "unstarted"
        /\ w = WorkerOrder[Len(SelectSeq(WorkerOrder, LAMBDA v : pc[v] # "unstarted")) + 1]
        /\ pc' = [pc EXCEPT ![w] = "check"]
        /\ self' = [self EXCEPT ![w] = c]
        /\ old_context' = [old_context EXCEPT ![w] = <<context[w]>> \o @]
        /\ context' = [context EXCEPT ![w] = c]
        /\ waits' = [waits EXCEPT ![w] = 0]
    /\ UNCHANGED <<regvars, ctxvars, event, iter, candidates, idx, nextId,
                   evaluated, executed, results, heard, observed, error>>

\* Context.run() called by a user thread itself
Run(t, c) ==
    /\ pc[t] = "user"
    /\ Len(old_context[t]) < MaxDepth
    /\ pc' = [pc EXCEPT ![t] = "check"]
    /\ self' = [self EXCEPT ![t] = c]
    /\ old_context' = [old_context EXCEPT ![t] = <<context[t]>> \o @]
    /\ context' = [context EXCEPT ![t] = c]
    /\ waits' = [waits EXCEPT ![t] = 0]
    /\ error' = [error EXCEPT ![t] = "none"]
    /\ UNCHANGED <<regvars, ctxvars, event, iter, candidates, idx, nextId,
                   evaluated, executed, results, heard, observed>>

\* where a thread is once its run() has returned or raised
AfterRun(t, raised) ==
    IF t \in Users THEN "user" ELSE IF raised THEN "crashed" ELSE "terminated"

\* an exception leaves _handle_one (which catches queue.Empty only), the
\* while loop and the with block of run()
RaiseOut(t) ==
    /\ pc' = [pc EXCEPT ![t] = AfterRun(t, TRUE)]
    /\ context' = [context EXCEPT ![t] = UnwoundContext(@, Head(old_context[t]))]
    /\ old_context' = [old_context EXCEPT ![t] = Tail(@)]
    /\ self' = [self EXCEPT ![t] = NoContext]

\* the exceptions a condition or an action may raise: queue.Empty ("Empty")
\* or any other one ("Error")
Exceptions == {"Error", "Empty"}

\* except queue.Empty: the handler of the try that spans the whole body of
\* _handle_one, the conditions and actions included
Caught(x) == x = "Empty"

\* exception x leaves a condition or an action: the handler of _handle_one
\* swallows it and _handle_one returns to the while loop, or it leaves run()
RaiseFrom(t, x) ==
    IF Caught(x)
    THEN /\ pc' = [pc EXCEPT ![t] = "check"]
         /\ UNCHANGED <<tlsvars, self>>
    ELSE RaiseOut(t)

\* a loop that ends at its first test
LoopNever(d) == FALSE

\* a loop that never looks at self.done
LoopForever(d) == TRUE

\* while not self.done
LoopTest(d) == ~d

\* the test of the while loop, and the end of run() when it fails
LoopCheck(t) ==
    /\ pc[t] = "check"
    /\ IF ~LoopTest(done[self[t]])
       THEN /\ pc' = [pc EXCEPT ![t] = AfterRun(t, FALSE)]
            /\ context' = [context EXCEPT ![t] = RestoredContext(@, Head(old_context[t]))]
            /\ old_context' = [old_context EXCEPT ![t] = Tail(@)]
            /\ self' = [self EXCEPT ![t] = NoContext]
       ELSE /\ pc' = [pc EXCEPT ![t] = "get"]
            /\ UNCHANGED <<tlsvars, self>>
    /\ UNCHANGED <<regvars, ctxvars, event, iter, candidates, idx, nextId, error,
                   histvars>>

\* a get that leaves the item in the queue
QueuePeek(q) == [item |-> Head(q), rest |-> q]

\* queue.Queue.get: the item taken and the queue left
QueueGet(q) == [item |-> Head(q), rest |-> Tail(q)]

\* self.event_queue.get(timeout=1.0) returns an event; the queue's lock is
\* released, the rules are not read yet
Dequeue(t) ==
    /\ pc[t] = "get"
    /\ event_queue[self[t]] # <<>>
    /\ LET got == QueueGet(event_queue[self[t]])
       IN /\ event_queue' = [event_queue EXCEPT ![self[t]] = got.rest]
          /\ event' = [event EXCEPT ![t] = got.item]
    /\ iter' = [iter EXCEPT ![t] = NoIter]
    /\ candidates' = [candidates EXCEPT ![t] = <<>>]
    /\ idx' = [idx EXCEPT ![t] = 1]
    /\ pc' = [pc EXCEPT ![t] = "match"]
    /\ evaluated' = [evaluated EXCEPT ![t] = {}]
    /\ executed' = [executed EXCEPT ![t] = {}]
    /\ results' = [results EXCEPT ![t] = NoResult]
    /\ heard' = [heard EXCEPT ![t] =
           {r \in Range(rules) : event'[t].name \in events[r]}]
    /\ UNCHANGED <<regvars, done, scope, tlsvars, self, nextId, error, waits, observed>>

\* the get times out (queue.Empty): back to the test of self.done
Timeout(t) ==
    /\ pc[t] = "get"
    /\ event_queue[self[t]] = <<>>
    /\ pc' = [pc EXCEPT ![t] = "check"]
    /\ waits' = [waits EXCEPT ![t] = IF done[self[t]] /\ @ < 2 THEN @ + 1 ELSE @]
    /\ UNCHANGED <<regvars, ctxvars, tlsvars, self, event, iter, candidates, idx,
                   nextId, evaluated, executed, results, heard, observed, error>>

\* every rule passes the filter
AnyName(evs, r, name) == TRUE

\* event.name in r.events
Matches(evs, r, name) == name \in evs[r]

\* [r for r in rs if event.name in r.events] over a registry at rest
Candidates(rs, evs, name) == SelectSeq(rs, LAMBDA r : Matches(evs, r, name))

\* iter(rules): the iterator of a set starts at its first member and
\* records the size the set has
OpenIter(rs) == [pos |-> 1, used |-> Len(rs)]

\* for r in rules, of the comprehension: the iterator over rules is made;
\* no member is read yet
MatchStart(t) ==
    /\ pc[t] = "match"
    /\ iter[t] = NoIter
    /\ iter' = [iter EXCEPT ![t] = OpenIter(rules)]
    /\ UNCHANGED <<regvars, ctxvars, tlsvars, pc, self, event, candidates, idx,
                   nextId, error, histvars>>

\* candidates = [r for r in rules if event.name in r.events], one pass: the
\* iterator finds the size of the set unchanged, the next member of rules is
\* read and kept if it listens to the event's name
MatchRule(t) ==
    /\ pc[t] = "match"
    /\ iter[t] # NoIter
    /\ Len(rules) = iter[t].used
    /\ iter[t].pos <= iter[t].used
    /\ iter' = [iter EXCEPT ![t].pos = @ + 1]
    /\ candidates' = [candidates EXCEPT ![t] =
           IF Matches(events, rules[iter[t].pos], event[t].name)
           THEN Append(@, rules[iter[t].pos]) ELSE @]
    /\ UNCHANGED <<regvars, ctxvars, tlsvars, pc, self, event, idx, nextId, error,
                   histvars>>

\* where the loop goes after candidate i of cs
AfterCandidate(cs, i) == IF i >= Len(cs) THEN "check" ELSE "dispatch"

\* the iteration over rules is exhausted: the candidates list is built
MatchEnd(t) ==
    /\ pc[t] = "match"
    /\ iter[t] # NoIter
    /\ Len(rules) = iter[t].used
    /\ iter[t].pos > iter[t].used
    /\ iter' = [iter EXCEPT ![t] = NoIter]
    /\ pc' = [pc EXCEPT ![t] = AfterCandidate(candidates[t], 0)]
    /\ UNCHANGED <<regvars, ctxvars, tlsvars, self, event, candidates, idx, nextId,
                   error, histvars>>

\* rules.add ran in another thread after the comprehension made its
\* iterator: the next step of the iterator, the first one included, finds the
\* size changed and raises
\* RuntimeError (Set changed size during iteration), which ends run()
MatchRace(t) ==
    /\ pc[t] = "match"
    /\ iter[t] # NoIter
    /\ Len(rules) # iter[t].used
    /\ iter' = [iter EXCEPT ![t] = NoIter]
    /\ error' = [error EXCEPT ![t] = "RuntimeError"]
    /\ RaiseOut(t)
    /\ UNCHANGED <<regvars, ctxvars, event, candidates, idx, nextId, histvars>>

\* all(c(self.scope, event) for c in r.conditions): the evaluation stops at
\* the first condition that returns False
UntilFalse(res, cs) == Len(res) < Len(cs) /\ "False" \notin Range(res)

\* [c(self.scope, event) for c in r.conditions]: the list iterator has a
\* next member as long as its index is below the length the list has now
MoreConditions(res, cs) == Len(res) < Len(cs)

\* the comprehension was left by an exception
Raised(res) == res # <<>> /\ res[Len(res)] = "Raise"

\* list.count(False): the members equal to False
RECURSIVE CountFalse(_)
CountFalse(res) ==
    IF res = <<>> THEN 0
    ELSE (IF Head(res) = "False" THEN 1 ELSE 0) + CountFalse(Tail(res))

\* only the first condition decides
FirstHolds(res) == IF res = <<>> THEN TRUE ELSE Head(res) # "False"

\* if not [...].count(False)
Holds(res) == CountFalse(res) = 0

\* what an action body may do: change scope.count, emit one event to the
\* current context or (inside a nested context_switch) to another one, return
\* ("none") or raise an exception; an action that does both of the first
\* two emits with data = {'n': scope.count}
Effects(incs, emits, tos, raises) ==
    [inc : incs, emit : emits, to : tos, raise : raises]

NoEffect == [inc |-> FALSE, emit |-> "none", to |-> "A", raise |-> "none"]

\* how an action may end
Returns == {"none"}
ReturnsOrRaises == {"none"} \cup Exceptions

\* the effects that keep the run within the bounds
Feasible(t, eff) ==
    /\ eff.inc => scope[self[t]] < MaxCount
    /\ eff.emit # "none" => (nextId <= MaxEvents \/ pc[t] = "scoped")
    /\ eff.emit = "none" => eff.to = "A"

Allowed(t, E) == {eff \in E : Feasible(t, eff)}

\* a dispatch that hands every rule the scope as its first rule saw it
ScopeAtFirstRule(t) ==
    IF results[t].rule = "none" THEN scope[self[t]] ELSE results[t].saw

\* self.scope in c(self.scope, event) and r(self.scope, event): the scope
\* of the Context itself, as it is when the rule is reached
ScopeSeen(t) == scope[self[t]]

\* a for loop over the rules that match at the time of each pass
MatchingNow(t) == Candidates(rules, events, event[t].name)[idx[t]]

\* for r in candidates: the next member of the list built before the loop
NextCandidate(t) == candidates[t][idx[t]]

\* the results the comprehension over r.conditions has collected so far
CondsSoFar(t) ==
    IF results[t].rule = NextCandidate(t) THEN results[t].res ELSE <<>>

\* one pass of [c(self.scope, event) for c in r.conditions]: the list's
\* next member, as the list is now, is called and returns or raises
EvalCondition(t) ==
    /\ pc[t] = "dispatch"
    /\ LET r == NextCandidate(t)
       IN /\ MoreConditions(CondsSoFar(t), conditions[r])
          /\ \E v \in CondVals \cup {"Raise"} :
             \E x \in IF v = "Raise" THEN Exceptions ELSE {"none"} :
               LET res == Append(CondsSoFar(t), v)
               IN /\ results' = [results EXCEPT ![t] =
                         [rule |-> r, res |-> res, ran |-> FALSE,
                          raised |-> Raised(res),
                          saw |-> ScopeSeen(t), left |-> ScopeSeen(t)]]
                  /\ IF Raised(res)
                     THEN RaiseFrom(t, x)
                     ELSE UNCHANGED <<tlsvars, pc, self>>
          /\ evaluated' = [evaluated EXCEPT ![t] = @ \cup {r}]
    /\ UNCHANGED <<regvars, ctxvars, event, iter, candidates, idx, nextId, error,
                   executed, heard, waits, observed>>

\* the iterator of the comprehension finds no next member in r.conditions,
\* as the list is now: the comprehension returns its list, and a condition
\* appended from here on is not evaluated for this event
EndConditions(t) ==
    /\ pc[t] = "dispatch"
    /\ ~MoreConditions(CondsSoFar(t), conditions[NextCandidate(t)])
    /\ pc' = [pc EXCEPT ![t] = "decide"]
    /\ UNCHANGED <<regvars, ctxvars, tlsvars, self, event, iter, candidates, idx,
                   nextId, error, histvars>>

\* the list the comprehension returned holds a False: the action is not
\* called, the for loop goes on
SkipAction(t) ==
    /\ pc[t] = "decide"
    /\ ~Holds(CondsSoFar(t))
    /\ pc' = [pc EXCEPT ![t] = AfterCandidate(candidates[t], idx[t])]
    /\ idx' = [idx EXCEPT ![t] = @ + 1]
    /\ UNCHANGED <<regvars, ctxvars, tlsvars, self, event, iter, candidates, nextId,
                   error, histvars>>

\* the list the comprehension returned holds no False:
\* r(self.scope, event) is called and runs up to its first call of
\* new_event or its end; it may have changed scope.count by then
CallAction(t, E) ==
    /\ pc[t] = "decide"
    /\ LET r == NextCandidate(t)
           c == self[t]
       IN /\ Holds(CondsSoFar(t))
          /\ \E inc \in {eff.inc : eff \in E \cup {NoEffect}} :
               /\ results' = [results EXCEPT ![t] =
                      [rule |-> r, res |-> CondsSoFar(t), ran |-> TRUE,
                       raised |-> FALSE, saw |-> ScopeSeen(t),
                       left |-> IF inc THEN ScopeSeen(t) + 1 ELSE ScopeSeen(t)]]
               /\ scope' = [scope EXCEPT ![c] = IF inc THEN @ + 1 ELSE @]
          /\ evaluated' = [evaluated EXCEPT ![t] = @ \cup {r}]
          /\ executed' = [executed EXCEPT ![t] = @ \cup {r}]
          /\ observed' = IF event[t].n # 0
                          THEN Append(observed, [rule |-> r, n |-> event[t].n])
                          ELSE observed
    /\ pc' = [pc EXCEPT ![t] = "action"]
    /\ UNCHANGED <<regvars, event_queue, done, tlsvars, self, event, iter, candidates,
                   idx, nextId, error, heard, waits>>

\* the running action enters  with context_switch(c):  for a Context c
\* other than the one whose loop runs it, to call new_event inside
ActionSwitch(t, E) ==
    /\ pc[t] = "action"
    /\ \E eff \in E :
        /\ eff.emit # "none"
        /\ eff.to # self[t]
        /\ old_context' = [old_context EXCEPT ![t] = <<context[t]>> \o @]
        /\ context' = [context EXCEPT ![t] = eff.to]
    /\ pc' = [pc EXCEPT ![t] = "scoped"]
    /\ UNCHANGED <<regvars, ctxvars, self, event, iter, candidates, idx, nextId,
                   error, histvars>>

\* the names the running action may pass to new_event where it is: inside
\* the with block it entered, or outside of any
Emits(t, E) ==
    {eff.emit : eff \in {e \in E : e.emit # "none" /\ (pc[t] = "scoped" \/ e.to = self[t])}}

\* the running action calls new_event, which gets to the put of
\* receive_event (line 141, line 71): the event is in the queue of the
\* thread's current context, new_event has not returned; an action that
\* changed scope.count passes it as the data
EmitEvent(t, E) ==
    /\ pc[t] \in {"action", "scoped"}
    /\ \E name \in Emits(t, E) :
        event_queue' = NewEventQueues(
            CurrentContext(t), event_queue,
            WithData(NewEventObject(name, t, event[t].id),
                     IF results[t].left # results[t].saw
                     THEN scope[self[t]] ELSE 0))
    /\ nextId' = nextId + 1
    /\ pc' = [pc EXCEPT ![t] = IF pc[t] = "scoped" THEN "scoped_put" ELSE "put"]
    /\ UNCHANGED <<regvars, done, scope, tlsvars, self, event, iter, candidates, idx,
                   error, histvars>>

\* receive_event and new_event return to the action; the with block the
\* action entered for the call, if any, is left
EmitReturn(t) ==
    /\ pc[t] \in {"put", "scoped_put"}
    /\ IF pc[t] = "scoped_put"
       THEN /\ context' = [context EXCEPT ![t] = RestoredContext(@, Head(old_context[t]))]
            /\ old_context' = [old_context EXCEPT ![t] = Tail(@)]
       ELSE UNCHANGED tlsvars
    /\ pc' = [pc EXCEPT ![t] = "acted"]
    /\ UNCHANGED <<regvars, ctxvars, self, event, iter, candidates, idx, nextId,
                   error, histvars>>

\* the running action returns or raises
ReturnAction(t, E) ==
    /\ pc[t] \in {"action", "acted"}
    /\ \E raise \in {eff.raise : eff \in E \cup {NoEffect}} :
         IF raise # "none"
         THEN /\ results' = [results EXCEPT ![t].raised = TRUE]
              /\ RaiseFrom(t, raise)
              /\ UNCHANGED idx
         ELSE /\ pc' = [pc EXCEPT ![t] = AfterCandidate(candidates[t], idx[t])]
              /\ idx' = [idx EXCEPT ![t] = @ + 1]
              /\ UNCHANGED <<tlsvars, self, results>>
    /\ UNCHANGED <<regvars, ctxvars, event, iter, candidates, nextId, error,
                   evaluated, executed, heard, waits, observed>>

\* ----------------------------------------------------------- specifications
Register ==
    \/ \E c \in Conds, fn \in Actions : PrepareAction("condition", c, fn)
    \/ \E n \in Names, fn \in Actions : PrepareAction("event", n, fn)
    \/ \E c \in Conds, fn \in Actions : ConditionDecorator(c, fn)
    \/ \E n \in Names, fn \in Actions : EventDecorator(n, fn)

\* event("x") applied to the action bodies
RegisterX(F) ==
    \/ \E fn \in F : PrepareAction("event", "x", fn)
    \/ \E fn \in F : EventDecorator("x", fn)

Switch ==
    \/ \E t \in Users, c \in Contexts : EnterScope(t, c)
    \/ \E t \in Users : ExitScope(t)
    \/ \E t \in Users : ExitScopeRaise(t)
    \/ \E t \in Users, n \in Names : NewEvent(t, n)

\* the loop while no rule is registered: every candidates list is empty
Idle(t) ==
    \/ LoopCheck(t)
    \/ Dequeue(t)
    \/ Timeout(t)
    \/ MatchStart(t)
    \/ MatchEnd(t)

\* the loop up to the candidates list
Fetch(t) ==
    \/ Idle(t)
    \/ MatchRule(t)

\* the loop over rules that have no conditions and whose actions do not emit
Plain(t, E) ==
    \/ Fetch(t)
    \/ EndConditions(t)
    \/ CallAction(t, Allowed(t, E))
    \/ ReturnAction(t, Allowed(t, E))

\* the loop over rules that have no conditions
Act(t, E) ==
    \/ Plain(t, E)
    \/ EmitEvent(t, Allowed(t, E))
    \/ EmitReturn(t)

\* the loop over rules with conditions whose actions do not emit
Loop(t, E) ==
    \/ Plain(t, E)
    \/ EvalCondition(t)
    \/ SkipAction(t)

\* no thread runs a loop: the setup phase
Setup == \A t \in Threads : pc[t] \in {"unstarted", "user"}

\* every decorator call has returned
Imported == call = NoCall

\* The registration calls alone: module-level decorators applied in any order.
NextReg == Register

SpecReg == Init /\ [][NextReg]_vars

\* A user thread entering and leaving context_switch scopes, emitting events
\* and running a Context's loop itself.
NextSwitch ==
    \/ Switch
    \/ \E t \in Users, c \in Contexts : Run(t, c)
    \/ \E c \in Contexts : SetDone(c)
    \/ \E t \in Users : Idle(t)

SpecSwitch == Init /\ [][NextSwitch]_vars

\* Matching: rules are registered while no loop runs, one thread runs the
\* loop of Context A, conditions return or raise, actions return or raise.
MatchEffects == Effects({FALSE}, {"none"}, {"A"}, ReturnsOrRaises)

NextMatch ==
    \/ Setup /\ Register
    \/ \E n \in Names : ReceiveEvent("A", n)
    \/ Imported /\ Run("u", "A")
    \/ Loop("u", MatchEffects)

SpecMatch == Init /\ [][NextMatch]_vars

\* Late registration: the decorators are applied by another thread (or by
\* a condition or action) while a thread runs the loop of Context A.
LoopLate(t) == Loop(t, {}) \/ MatchRace(t)

NextLate ==
    \/ RegisterX(Actions)
    \/ \E fn \in Actions : PrepareAction("condition", "p", fn)
    \/ \E fn \in Actions : ConditionDecorator("p", fn)
    \/ ReceiveEvent("A", "x")
    \/ Run("u", "A")
    \/ LoopLate("u")

FairLate == Init /\ [][NextLate]_vars /\ WF_vars(LoopLate("u"))

\* The engine: rules are registered before any loop starts (the setup phase),
\* events arrive on both Contexts, start() is called on them, and actions
\* emit events to the current Context or, through a nested context_switch,
\* to the other one, and return or raise.
LoopEffects == Effects({FALSE}, {"none", "x"}, Contexts, ReturnsOrRaises)

Next ==
    \/ Setup /\ RegisterX({"f"})
    \/ \E c \in Contexts : ReceiveEvent(c, "x")
    \/ Imported /\ \E c \in Contexts : Start(c)
    \/ \E t \in Workers : Act(t, LoopEffects)
    \/ \E t \in Workers : ActionSwitch(t, Allowed(t, LoopEffects))

Spec == Init /\ [][Next]_vars

\* Termination: Context A with up to two threads running its loop, done being
\* set at any moment, actions that return or raise; every started thread
\* keeps being scheduled.
DoneEffects == Effects({FALSE}, {"none"}, {"A"}, ReturnsOrRaises)

NextDone ==
    \/ Setup /\ RegisterX(Actions)
    \/ ReceiveEvent("A", "x")
    \/ Imported /\ Start("A")
    \/ SetDone("A")
    \/ \E t \in Workers : Plain(t, DoneEffects)

FairSpec ==
    /\ Init
    /\ [][NextDone]_vars
    /\ \A t \in Workers : WF_vars(Plain(t, DoneEffects))

\* Thread-local binding: a started loop on each Context whose actions emit
\* with a plain new_event, while the API-calling thread enters and leaves
\* context_switch scopes of its own.
PlainEffects(t) ==
    {eff \in Effects({FALSE}, {"none", "x"}, Contexts, Returns) :
        eff.emit # "none" => eff.to = self[t]}

NextLocal ==
    \/ Setup /\ RegisterX({"f"})
    \/ \E c \in Contexts : ReceiveEvent(c, "x")
    \/ Imported /\ pc["w1"] = "unstarted" /\ Start("A")
    \/ Imported /\ pc["w1"] # "unstarted" /\ Start("B")
    \/ \E t \in Workers : Act(t, PlainEffects(t))
    \/ \E c \in Contexts : EnterScope("u", c)
    \/ ExitScope("u")

SpecLocal == Init /\ [][NextLocal]_vars

\* Delivery: events arrive on Context A from outside and from actions
\* while its loops run; done is never set and no action raises.
RecvEffects == Effects({FALSE}, {"none", "x"}, {"A"}, Returns)

NextRecv ==
    \/ Setup /\ RegisterX({"f"})
    \/ ReceiveEvent("A", "x")
    \/ Imported /\ Start("A")
    \/ \E t \in Workers : Act(t, RecvEffects)

FairRecv ==
    /\ Init
    /\ [][NextRecv]_vars
    /\ \A t \in Workers : WF_vars(Act(t, RecvEffects))

\* The tick scenario: rule f listens for 'tick' ("x") under a condition
\* that is always true, increments scope.count and emits 'ticked' ("y")
\* with n = scope.count; rule g listens for 'ticked'. The decorators are
\* applied in any order, 'tick' is enqueued some number of times, then the
\* loop of the Context is started.
TickEffects == Effects({TRUE}, {"y"}, {"A"}, Returns)

TickRules ==
    /\ events = [fn \in Actions |-> IF fn = "f" THEN {"x"} ELSE {"y"}]
    /\ conditions = [fn \in Actions |-> IF fn = "f" THEN <<"p">> ELSE <<>>]

\* lambda c, e: True  holds whenever it is evaluated
AlwaysTrue(res) == \A i \in DOMAIN res : res[i] = "True"

\* the bodies of f and g: f changes the count and emits, g does neither
TickBodies(t) ==
    /\ pc[t] \in {"dispatch", "decide"} =>
        /\ AlwaysTrue(results'[t].res)
        /\ pc'[t] = "action" =>
              (candidates[t][idx[t]] = "f") = (scope'[self[t]] # scope[self[t]])
    /\ pc[t] = "action" => (candidates[t][idx[t]] = "f") = (pc'[t] = "put")

LoopTick(t) ==
    /\ \/ Fetch(t)
       \/ EvalCondition(t)
       \/ EndConditions(t)
       \/ CallAction(t, TickEffects)
       \/ EmitEvent(t, TickEffects)
       \/ EmitReturn(t)
       \/ ReturnAction(t, TickEffects)
    /\ TickBodies(t)

NextTick ==
    \/ Setup /\ events["f"] = {} /\ PrepareAction("event", "x", "f")
    \/ Setup /\ EventDecorator("x", "f")
    \/ Setup /\ conditions["f"] = <<>> /\ PrepareAction("condition", "p", "f")
    \/ Setup /\ ConditionDecorator("p", "f")
    \/ Setup /\ events["g"] = {} /\ PrepareAction("event", "y", "g")
    \/ Setup /\ EventDecorator("y", "g")
    \/ Setup /\ ReceiveEvent("A", "x")
    \/ Setup /\ TickRules /\ Start("A")
    \/ \E t \in Workers : LoopTick(t)

FairTick ==
    /\ Init
    /\ [][NextTick]_vars
    /\ WF_vars(\E t \in Workers : LoopTick(t))

\* Shared scope: one loop on Context A, whose actions may change
\* scope.count.
ScopeEffects == Effects(BOOLEAN, {"none"}, {"A"}, Returns)

NextScope ==
    \/ Setup /\ Register
    \/ ReceiveEvent("A", "x")
    \/ Setup /\ Imported /\ Start("A")
    \/ \E t \in Workers : Loop(t, ScopeEffects)

SpecScope == Init /\ [][NextScope]_vars

\* ------------------------------------------------------------------ claims
IsPrefix(s, t) == Len(s) <= Len(t) /\ SubSeq(t, 1, Len(s)) = s

Entries(fn) == {i \in DOMAIN rules : rules[i] = fn}

\* a decorator call was made on fn: it has left its mark on fn, or it is
\* past its prepare_action
Registered(fn) == events[fn] # {} \/ conditions[fn] # <<>> \/ call.fn = fn

\* C3: after any sequence of event() and condition() calls the registry
\* holds exactly one entry for every action body a call was made on (and
\* none for the others), and a call never removes an event name or a
\* condition the action already had: the events set only grows and the
\* conditions list is only appended to.
C3_OneEntryPerAction ==
    /\ [](\A fn \in Actions :
            Cardinality(Entries(fn)) = IF Registered(fn) THEN 1 ELSE 0)
    /\ [][\A fn \in Actions :
            /\ events[fn] \subseteq events'[fn]
            /\ IsPrefix(conditions[fn], conditions'[fn])
            /\ Cardinality(events'[fn]) + Len(conditions'[fn])
                   <= Cardinality(events[fn]) + Len(conditions[fn]) + 1]_vars

\* an action registered by condition(), event() and condition() again
C3_Witness ==
    /\ rules = <<"f">>
    /\ conditions["f"] = <<"p", "q">>
    /\ events["f"] = {"x"}
    /\ regs = 3

\* the events thread t has put on the queues with new_event
EmittedBy(q, t) == {e \in UNION {Range(q[c]) : c \in Contexts} : e.by = t}

\* C6: a new_event call made by a thread that is outside any run loop and
\* outside any context_switch scope (every scope it entered has been left)
\* raises the no-current-context error and changes no Context's queue.
C6_NoCurrentContext ==
    [][\A t \in Users :
        (pc[t] = "user" /\ old_context[t] = <<>>) =>
            /\ EmittedBy(event_queue', t) \subseteq EmittedBy(event_queue, t)
            /\ (error'[t] # error[t] /\ error'[t] # "none") =>
                   (error'[t] = "NoCurrentContext" /\ event_queue' = event_queue)]_vars

\* C7: whenever a thread leaves a context_switch scope, normally or by an
\* exception, thread_local.context has the value it had just before that
\* scope was entered.
C7_RestoredOnEveryExit ==
    [][\A t \in Threads :
        Len(old_context'[t]) < Len(old_context[t]) =>
            context'[t] = Head(old_context[t])]_vars

\* the rules whose events set contains the name
Listening(name) == {r \in Range(rules) : name \in events[r]}

\* where a thread is while it runs the for loop over its candidates
InBody == {"dispatch", "decide", "action", "scoped", "put", "scoped_put", "acted"}

\* where a thread is between the dequeue of an event and the end of the
\* for loop over its candidates
InDispatch == {"match"} \cup InBody

\* C1 as claimed: the candidates of a dequeued event are exactly the
\* registered rules whose events set contains the event's name; only such
\* rules have their conditions evaluated or their action executed (a rule
\* with an empty events set never is), and once the dispatch of the event
\* is over every one of them has had its conditions evaluated.
C1_EveryListenerEvaluated ==
    /\ [][\A t \in Threads :
            (pc[t] = "match" /\ pc'[t] # "match") =>
                /\ Range(candidates'[t]) = Listening(event[t].name)
                /\ Len(candidates'[t]) = Cardinality(Listening(event[t].name))]_vars
    /\ [](\A t \in Threads :
            /\ executed[t] \subseteq evaluated[t]
            /\ evaluated[t] \subseteq Listening(event[t].name)
            /\ \A r \in evaluated[t] : events[r] # {}
            /\ pc[t] \notin InDispatch => evaluated[t] = Range(candidates[t]))

\* C1 amended: the candidates of a dequeued event are exactly the
\* registered rules whose events set contains the event's name; only such
\* rules have their conditions evaluated or their action executed (a rule
\* with an empty events set never is); once the dispatch of the event is
\* over every candidate has had its conditions evaluated unless a
\* condition or an action raised, and then the candidates up to the one
\* that raised have, and the ones after it have not.
C1_CandidatesByName ==
    /\ [][\A t \in Threads :
            (pc[t] = "match" /\ pc'[t] # "match") =>
                /\ Range(candidates'[t]) = Listening(event[t].name)
                /\ Len(candidates'[t]) = Cardinality(Listening(event[t].name))]_vars
    /\ [](\A t \in Threads :
            /\ executed[t] \subseteq evaluated[t]
            /\ evaluated[t] \subseteq Listening(event[t].name)
            /\ \A r \in evaluated[t] : events[r] # {}
            /\ pc[t] \notin InDispatch =>
                   evaluated[t] = IF results[t].raised
                                  THEN {candidates[t][i] : i \in 1..idx[t]}
                                  ELSE Range(candidates[t]))

\* an event named x was dispatched to its end: f, which listens for it,
\* executed, and g, registered through condition() only, did not
C1_Witness ==
    /\ pc["u"] = "check"
    /\ event["u"].name = "x"
    /\ executed["u"] = {"f"}
    /\ "g" \in Range(rules)
    /\ events["g"] = {}
    /\ ~results["u"].raised

\* where a thread is from the start of a loop body to the if of line 101
InConditions == {"dispatch", "decide"}

\* the comprehension over the conditions of results[t].rule is over: it was
\* exhausted and the if was decided, or a condition raised
Decided(t) ==
    /\ results[t].rule # "none"
    /\ ~(pc[t] \in InConditions /\ candidates[t][idx[t]] = results[t].rule)

\* C2 as claimed: the action of a candidate executes iff every one of its
\* conditions evaluated true.
C2_AllTrue ==
    \A t \in Threads :
        Decided(t) =>
            (results[t].ran <=> \A i \in DOMAIN results[t].res : results[t].res[i] = "True")

\* C2 amended: the action of a candidate executes iff none of its
\* conditions returned a value equal to False (or raised); for conditions
\* that return True or False this is iff every condition returned True,
\* and a candidate with zero conditions always executes.
C2_NoneFalse ==
    \A t \in Threads :
        Decided(t) =>
            LET res == results[t].res
            IN /\ results[t].ran <=> \A i \in DOMAIN res : res[i] \notin {"False", "Raise"}
               /\ Range(res) \subseteq {"True", "False"} =>
                      (results[t].ran <=> \A i \in DOMAIN res : res[i] = "True")
               /\ (results[t].rule \in executed[t]) = results[t].ran

\* two conditions, the second returned False: the action did not execute
\* and the for loop went on
C2_Witness ==
    /\ Decided("u")
    /\ results["u"].res = <<"True", "False">>
    /\ ~results["u"].ran
    /\ results["u"].rule \notin executed["u"]

\* the threads that have an event of Context c between its dequeue and the
\* end of the for loop over its candidates
Dispatching(c) == {t \in Threads : self[t] = c /\ pc[t] \in InDispatch}

\* thread t takes a step of a loop body (a condition, the action) now
Evaluates(t) ==
    /\ pc[t] \in InBody
    /\ (results'[t] # results[t] \/ pc'[t] # pc[t])

\* an event put on the queue of self[t] before the event of t is still
\* queued or still in dispatch
OlderPending(t) ==
    \/ \E e \in Range(event_queue[self[t]]) : e.id < event[t].id
    \/ \E o \in Dispatching(self[t]) \ {t} : event[o].id < event[t].id

\* C4: a Context's events are handled strictly in the order they were put
\* on its queue: no condition or action runs for an event while an event
\* queued before it on the same Context is still queued or in dispatch.
C4_StrictFifo ==
    [][\A t \in Threads : Evaluates(t) => ~OlderPending(t)]_vars

\* every queue holds its events in the order they were constructed, each once
QueuesInOrder ==
    \A c \in Contexts : \A i, j \in DOMAIN event_queue[c] :
        i < j => event_queue[c][i].id < event_queue[c][j].id

\* C5 as claimed: new_event appends the event at the tail of the bound
\* Context's queue, and an event emitted from inside an action is in
\* dispatch only when the dispatch of the event that emitted it is over
\* and no event queued before it is still queued.
C5_AfterEmittingDispatch ==
    /\ QueuesInOrder
    /\ \A t \in Threads :
        pc[t] \in InDispatch =>
            /\ \A e \in Range(event_queue[self[t]]) : event[t].id < e.id
            /\ event[t].src # 0 =>
                   \A o \in Threads :
                       ~(pc[o] \in InDispatch /\ event[o].id = event[t].src)

\* the event constructed in this step, if one is
Emitted(q) == {e \in UNION {Range(q[c]) : c \in Contexts} : e.id = nextId}

\* where a thread is between the put of its new_event and the return of
\* new_event to the action
InPut == {"put", "scoped_put"}

\* what thread t has of its dispatch: the event, the candidates, the place
\* in them and what ran
Dispatch(t) == <<event[t], candidates[t], idx[t], evaluated[t], executed[t]>>

\* C5 amended: new_event appends exactly one event at the tail of the queue
\* of the Context bound for the calling thread and runs no rule itself: the
\* calling thread returns from new_event to the action that made the call
\* with its dispatch as it was, and an event is in dispatch only when no
\* event queued before it on its Context is still queued. (The event need
\* not be queued any more when new_event returns: another run loop that
\* serves the Context may have taken it.)
C5_EnqueuedAtTail ==
    /\ [](/\ QueuesInOrder
          /\ \A t \in Threads :
                pc[t] \in InDispatch =>
                    \A e \in Range(event_queue[self[t]]) : event[t].id < e.id)
    /\ [][nextId' # nextId =>
            LET e == CHOOSE e \in Emitted(event_queue') : TRUE
            IN /\ nextId' = nextId + 1
               /\ Cardinality(Emitted(event_queue')) = 1
               /\ \E c \in Contexts :
                      event_queue' = [event_queue EXCEPT ![c] = Append(@, e)]
               /\ \A t \in Threads :
                      e.by = t =>
                          /\ context[t] \in Contexts
                          /\ event_queue'[context[t]] = Append(event_queue[context[t]], e)
                          /\ pc'[t] \in InPut
                          /\ Dispatch(t)' = Dispatch(t)]_vars
    /\ [][\A t \in Threads :
            (pc[t] \in InPut /\ pc'[t] # pc[t]) =>
                /\ pc'[t] = "acted"
                /\ Dispatch(t)' = Dispatch(t)]_vars

\* the put of a new_event is done and the call has not returned; another
\* loop has taken the event and runs its for loop for it
C5_Witness ==
    \E t, o \in Workers :
        /\ pc[t] \in InPut
        /\ pc[o] \in InBody
        /\ event[o].by = t
        /\ event[o].src = event[t].id

\* C8: once done is set on a Context, every thread running its loop leaves
\* the loop (threads keep being scheduled, conditions and actions return);
\* after done is set a loop times out on an empty queue at most once, and a
\* dispatch in progress is carried to the end of its candidates unless a
\* condition or action raises.
C8_Terminates ==
    /\ \A t \in Workers :
        (pc[t] \in {"check", "get"} \cup InDispatch /\ done[self[t]])
            ~> (pc[t] \in {"terminated", "crashed"})
    /\ [](\A t \in Threads : waits[t] <= 1)
    /\ [][\A t \in Threads :
            (pc[t] \in InDispatch /\ pc'[t] \notin InDispatch) =>
                \/ pc[t] = "match" /\ candidates[t] = <<>>
                \/ pc[t] \in InBody /\ idx[t] = Len(candidates[t])
                \/ results'[t].raised]_vars

\* a loop that had dispatched an event returned from run() after done was
\* set, having timed out once on the empty queue
C8_Witness ==
    /\ pc["w1"] = "terminated"
    /\ done["A"]
    /\ executed["w1"] # {}
    /\ waits["w1"] = 1

\* C9: when the for loop over the candidates of an event is left, however
\* it is left, the thread is back at the test of the while loop.
C9_BackToLoop ==
    [][\A t \in Threads :
        (pc[t] \in InDispatch /\ pc'[t] \notin InDispatch) => pc'[t] = "check"]_vars

\* C10: at most one event of a Context is in dispatch.
C10_OneDispatchPerContext ==
    \A c \in Contexts : Cardinality(Dispatching(c)) <= 1

\* the threads inside the loop of run()
InLoop == {t \in Threads : pc[t] \in {"check", "get"} \cup InDispatch}

\* C11: the binding is per thread: a thread's thread_local.context changes
\* only in a step in which that thread itself enters or leaves a scope, a
\* thread running the loop of a Context sees that Context as current
\* whatever the other threads bind, and an event that an action emits with
\* new_event is put on the queue of the Context that dispatched the action.
C11_ThreadLocalBinding ==
    /\ [](\A t \in InLoop : context[t] = self[t])
    /\ [][/\ \A t \in Threads :
                context'[t] # context[t] => old_context'[t] # old_context[t]
          /\ \A c \in Contexts : \A e \in Range(event_queue'[c]) :
                (e.id = nextId /\ e.by \in Workers) => c = self[e.by]]_vars

\* a loop of A dispatches an event that an action of A emitted, while a
\* loop of B runs and the API-calling thread holds a binding to B
C11_Witness ==
    /\ self["w1"] = "A"
    /\ pc["w1"] \in InBody
    /\ event["w1"].by = "w1"
    /\ self["w2"] = "B"
    /\ "w2" \in InLoop
    /\ context["u"] = "B"

\* where x stands in the sequence s
Pos(s, x) == CHOOSE i \in DOMAIN s : s[i] = x

\* C12: when several rules match the dequeued event their actions execute
\* in registration order: every action that ran earlier for the event
\* belongs to a rule registered before the rule whose action ran last.
C12_RegistrationOrder ==
    \A t \in Threads :
        results[t].ran =>
            \A r \in executed[t] \ {results[t].rule} :
                Pos(registered, r) < Pos(registered, results[t].rule)

\* the ids of the events waiting in the queue of Context c
Queued(c) == {event_queue[c][i].id : i \in DOMAIN event_queue[c]}

\* the ids of the events taken from a queue and held by a _handle_one
Taken == {event[t].id : t \in Threads} \ {NoEvent.id}

\* C13: receive_event can be called while the loops run: an event stands
\* in the queue once, an event a loop has taken is not in the queue any
\* more and is held by that loop alone, an event leaves the queue only
\* into the hands of a loop and only a new event enters it, and while a
\* loop of the Context runs every queued event is eventually taken and
\* its dispatch carried to its end.
C13_DeliveredOnce ==
    /\ [](/\ Cardinality(Queued("A")) = Len(event_queue["A"])
          /\ Queued("A") \cap Taken = {}
          /\ \A t, u \in Threads :
                (t # u /\ event[t] # NoEvent) => event[t].id # event[u].id)
    /\ [][/\ Queued("A")' \subseteq Queued("A") \cup {nextId}
          /\ Queued("A") \ Queued("A")' \subseteq Taken' \ Taken]_vars
    /\ \A i \in 1..MaxEvents :
          (i \in Queued("A") /\ \E t \in InLoop : self[t] = "A")
              ~> (\E t \in Threads : event[t].id = i /\ pc[t] = "check")

\* two loops of A each hold an event that arrived from outside, one
\* action has run, and another event waits in the queue
C13_Witness ==
    /\ event["w1"].by = "env"
    /\ event["w2"].by = "env"
    /\ executed["w1"] # {}
    /\ pc["w2"] \in InDispatch
    /\ Queued("A") # {}

\* the loop of A has been started with 'tick' enqueued k times
Enqueued(k) ==
    /\ self["w1"] = "A"
    /\ event["w1"] = NoEvent
    /\ Len(event_queue["A"]) = k

\* the queue of A is empty and its loop has no event in dispatch
Drained == event_queue["A"] = <<>> /\ pc["w1"] \in {"check", "get"}

\* scope.count is k and g has run k times, once on n for every n in 1..k
Counted(k) ==
    /\ scope["A"] = k
    /\ Len(observed) = k
    /\ \A n \in 1..k : \E i \in DOMAIN observed : observed[i] = [rule |-> "g", n |-> n]

\* C14: in the tick scenario, with 'tick' enqueued k times when the loop
\* starts, the queue drains, and whenever it has drained scope.count is k
\* and the rule on 'ticked' has executed exactly k times, once for each n
\* in 1..k.
C14_TickScenario ==
    \A k \in 0..MaxEvents :
        /\ [](Enqueued(k) => [](Drained => Counted(k)))
        /\ Enqueued(k) ~> (Drained /\ Counted(k))

\* the queue has drained after two or more ticks
C14_Witness ==
    /\ Drained
    /\ scope["A"] >= 2
    /\ Len(observed) = scope["A"]
    /\ observed[2].n = 2

\* C15: a rule whose action has been given two or more event names never
\* triggers: no step calls the action of such a rule.
C15_MultipleNamesNeverTrigger ==
    [][\A t \in Threads :
          (pc[t] = "decide" /\ pc'[t] = "action")
              => Cardinality(events[results'[t].rule]) < 2]_vars

\* C16 as stated: a loop terminates only on seeing done set while the
\* queue of its Context is empty and it has no event in dispatch.
C16_TerminatesOnlyWhenIdle ==
    [][\A t \in Workers :
          (pc'[t] = "terminated" /\ pc[t] # "terminated")
              => /\ pc[t] = "check"
                 /\ done[self[t]]
                 /\ event_queue[self[t]] = <<>>]_vars

\* C16 amended: a loop is left in two ways only: run() returns at the
\* test of its while loop, between two _handle_one calls, on seeing done
\* set (the queue may still hold events), or an exception of a condition
\* or action leaves it in the middle of a dispatch.
C16_TerminatesAtLoopTest ==
    [][\A t \in Workers :
          (t \in InLoop /\ t \notin InLoop')
              => \/ pc[t] = "check" /\ done[self[t]] /\ pc'[t] = "terminated"
                 \/ pc[t] \in InBody /\ results'[t].raised /\ pc'[t] = "crashed"]_vars

\* a loop has returned with done set, after running an action, and left
\* an event in the queue
C16_Witness ==
    /\ pc["w1"] = "terminated"
    /\ done["A"]
    /\ executed["w1"] # {}
    /\ event_queue["A"] # <<>>

\* C17: within one dispatch every rule after the first is handed the
\* scope as the rule before it left it, mutations included, and every
\* condition and action is handed the scope of the Context as it is at
\* that moment.
C17_NoIsolation ==
    [][\A t \in Workers :
          (results'[t] # results[t] /\ results'[t].rule # "none")
              => /\ results'[t].saw = scope[self[t]]
                 /\ results[t].rule # "none" => results'[t].saw = results[t].left]_vars

\* the second rule of a dispatch has run its conditions and action on a
\* scope that the first rule's action had changed
C17_Witness ==
    /\ executed["w1"] = {"f", "g"}
    /\ results["w1"].rule = candidates["w1"][2]
    /\ results["w1"].res # <<>>
    /\ results["w1"].saw = 1
    /\ results["w1"].left = 1

\* C18: an exception of a condition or an action is not caught inside
\* _handle_one: it leaves the loop of run(); after a condition raised, the
\* action of its rule has not run; once the exception has left a loop body
\* the thread is not in the for loop any more, the candidates after the
\* failing one have had neither conditions nor action run for the event,
\* and the event is in no queue.
C18_ExceptionAbortsMatching ==
    /\ [][\A t \in Threads :
            (results'[t].raised /\ ~results[t].raised) => t \notin InLoop']_vars
    /\ [](\A t \in Threads :
            /\ "Raise" \in Range(results[t].res) => (results[t].raised /\ ~results[t].ran)
            /\ results[t].raised =>
                   /\ pc[t] \notin InBody
                   /\ results[t].rule = candidates[t][idx[t]]
                   /\ evaluated[t] = {candidates[t][i] : i \in 1..idx[t]}
                   /\ executed[t] \subseteq evaluated[t]
                   /\ \A c \in Contexts : event[t].id \notin Queued(c))

\* C19 as stated: the candidates of an event are fixed when it is dequeued,
\* before any condition or action runs: a rule that did not listen for the
\* event's name when the thread took the event is no candidate for it and
\* has neither conditions nor action run for it.
C19_FixedAtDequeue ==
    \A t \in Threads :
        /\ Range(candidates[t]) \subseteq heard[t]
        /\ evaluated[t] \subseteq heard[t]
        /\ executed[t] \subseteq heard[t]

\* the iterator of thread t is open and rules has changed size since
IterStale(t) == pc[t] = "match" /\ iter[t] # NoIter /\ Len(rules) # iter[t].used

\* C19 amended: the candidates of an event are fixed when the list of
\* line 97 is built, before any condition or action runs for the event:
\* the list does not change while the for loop runs and only its members
\* have conditions evaluated or their action executed for the event. The
\* comprehension keeps a rule iff the rule listens for the event's name at
\* the moment it is read, so a name attached after the dequeue and before
\* that moment makes the rule a candidate; and a rule added to the set
\* after the comprehension made its iterator makes the iterator's next
\* step raise RuntimeError, which leaves run() with the event lost: no
\* rule has run for it and it is in no queue.
C19_FixedBeforeFirstRule ==
    /\ [][\A t \in Threads :
            /\ pc[t] \in InBody => candidates'[t] = candidates[t]
            /\ (pc[t] = "match" /\ iter[t] # NoIter /\ iter'[t] # iter[t]) =>
                   IF IterStale(t)
                   THEN /\ error'[t] = "RuntimeError"
                        /\ t \notin InLoop'
                        /\ candidates'[t] = candidates[t]
                        /\ evaluated'[t] = {}
                        /\ \A c \in Contexts : event[t].id \notin Queued(c)'
                   ELSE /\ error'[t] = error[t]
                        /\ iter[t].pos <= iter[t].used =>
                               candidates'[t] =
                                   IF event[t].name \in events[rules[iter[t].pos]]
                                   THEN Append(candidates[t], rules[iter[t].pos])
                                   ELSE candidates[t]
                        /\ iter[t].pos > iter[t].used =>
                               (candidates'[t] = candidates[t] /\ pc'[t] # "match")]_vars
    /\ [](\A t \in Threads :
            /\ pc[t] = "match" => evaluated[t] = {}
            /\ evaluated[t] \subseteq Range(candidates[t])
            /\ executed[t] \subseteq Range(candidates[t])
            /\ Range(candidates[t]) \subseteq Listening(event[t].name))

\* the for loop runs for an event named x with f as its only candidate; g
\* did not listen for x when the event was taken and listens for it now: it
\* was given the name during this dispatch, after the comprehension had
\* passed it
C19_Witness ==
    /\ pc["u"] \in InBody
    /\ event["u"].name = "x"
    /\ candidates["u"] = <<"f">>
    /\ "g" \in Range(rules)
    /\ "g" \notin heard["u"]
    /\ "x" \in events["g"]

\* C20 as stated: for every candidate of an event every condition is
\* evaluated: a loop body that is over has as many results as its rule has
\* conditions, and a dispatch that is over has evaluated every candidate.
C20_EveryConditionOnce ==
    [][\A t \in Threads :
          /\ (pc[t] \in InConditions /\ (pc'[t] \notin InConditions \/ idx'[t] # idx[t]))
                 => Len(results'[t].res) = Len(conditions[results'[t].rule])
          /\ (pc[t] \in InDispatch /\ pc'[t] \notin InDispatch)
                 => evaluated'[t] = Range(candidates[t])]_vars

\* C20 amended: a loop body evaluates the conditions of its rule one by
\* one in the order of the list, whatever the earlier ones returned, and
\* calls the action only after the last one; only a condition that raises
\* ends the evaluation early, and then the action is not called. A rule
\* has its loop body at most once for an event.
C20_NoShortCircuit ==
    /\ [](\A t \in Threads :
            Decided(t) =>
                LET res == results[t].res
                IN /\ (t \in InLoop /\ ~results[t].raised) =>
                          /\ "Raise" \notin Range(res)
                          /\ Len(res) = Len(conditions[results[t].rule])
                   /\ "Raise" \in Range(res) =>
                          /\ res[Len(res)] = "Raise"
                          /\ results[t].raised
                          /\ ~results[t].ran
                   /\ \A i \in 1..(Len(res) - 1) : res[i] \in CondVals)
    /\ [][\A t \in Threads :
            (pc[t] \in InConditions /\ results'[t] # results[t]) =>
                LET r == candidates[t][idx[t]]
                    sofar == IF results[t].rule = r THEN results[t].res ELSE <<>>
                IN /\ results'[t].rule = r
                   /\ sofar = <<>> => r \notin evaluated[t]
                   /\ evaluated'[t] = evaluated[t] \cup {r}
                   /\ IF results'[t].ran
                      THEN results'[t].res = sofar /\ Len(sofar) = Len(conditions[r])
                      ELSE /\ Len(sofar) < Len(conditions[r])
                           /\ SubSeq(results'[t].res, 1, Len(sofar)) = sofar
                           /\ Len(results'[t].res) = Len(sofar) + 1]_vars

\* the second condition of a rule was evaluated after the first had
\* returned False, and the action was not called
C20_Witness ==
    /\ Decided("u")
    /\ results["u"].res = <<"False", "True">>
    /\ ~results["u"].ran
    /\ results["u"].rule \in evaluated["u"]
    /\ results["u"].rule \notin executed["u"]

====
